---- MODULE Spec2Model ----
(***************************************************************************)
(* Risk prediction pipeline (app.py, streamlit_app.py,                     *)
(* compute_features.py): lazy model cache, single-signal and multi-signal  *)
(* risk fusion, bulk runner and party feature aggregation.                 *)
(*                                                                         *)
(* Numbers.  The code computes in binary floating point; the model         *)
(* computes the same expressions exactly, in fixed point:                  *)
(*   a raw probability or anomaly score p is the integer p * 10^5,         *)
(*   a raw regressor output d (days) is the integer d * 100,               *)
(*   round(x, n) is rounding to the nearest multiple, ties to even.        *)
(* The opaque predictors (predict_proba, predict, score_samples) are       *)
(* modelled by their outputs, drawn from grids over their ranges.          *)
(* Timestamps (datetime.now) are not modelled.                             *)
(***************************************************************************)
EXTENDS Integers, Sequences, FiniteSets, TLC

VARIABLES
    fs,      \* model directory: per family and model key, the state of its file
    models,  \* the global model storage (app.py) / load_models() result (streamlit)
    out,     \* outcome of the last call: idle, returned value or raised exception
    predicted,    \* what the predictors returned to the call whose outcome is in out
    party_rows,   \* the feature table handed to generate_bulk_predictions
    bulk,         \* generate_bulk_predictions: position, row index, results list
    req,          \* concurrent requests (app.py): each one's position in its handler
    load_count,   \* per family and model key, the number of packages loaded into its slot
    overwritten,  \* a slot was assigned after a request had read the family's slots
    records,      \* the transaction records (rows of df) given to the aggregator
    party_stats,  \* the aggregator's result
    request,      \* a predictor invocation: the caller, the package, the data mapping
    invocation    \* its course: the input vector built, what the predictor received

appVars == <<fs, models, out, predicted>>
bulkVars == <<party_rows, bulk>>
loadVars == <<req, load_count, overwritten>>
aggVars == <<records, party_stats>>
inputVars == <<request, invocation>>
vars == <<fs, models, out, predicted, party_rows, bulk, req, load_count, overwritten,
          records, party_stats, request, invocation>>

(***************************************************************************)
(* Bounds of the model.                                                    *)
(***************************************************************************)
\* number of grid steps over a classifier's probability range [0, 1]
ProbPoints == 12
\* number of grid steps over the acceptance classifier's range [0, 1]
AccPoints == 4
\* number of grid steps over the anomaly scorer's range [AnomalyLo, AnomalyHi]
AnomalyPoints == 12

\* number of grid steps over the regressor's range [DaysLo, DaysHi]
DaysPoints == 13

\* most rows of a feature table handed to the bulk runner
MaxRows == 2
\* number of grid steps over each predictor's range, per row of the bulk runner
BulkPoints == 6

\* number of concurrent requests in one process
NumRequests == 2

\* most transaction records of an input to the aggregator
MaxRecords == 2
\* number of parties the records name
NumParties == 2
\* most calls of the aggregator on one input object
MaxCalls == 2

\* number of feature names a package may require
NumFeatures == 3
\* largest feature value of a caller's mapping (values are 1 .. MaxValue)
MaxValue == 2

\* 1.0 as a raw probability (10^-5 units)
One == 10^5
\* range of the anomaly scorer's output drawn by the model: -0.62 .. 0.10
AnomalyLo == 0 - 62 * 10^3
AnomalyHi == 10^4

\* range of the regressor's output drawn by the model, in 10^-2 days:
\* -10.00 .. 120.00
DaysLo == 0 - 10^3
DaysHi == 12 * 10^3

Grid(lo, hi, n) == { lo + ((k * (hi - lo)) \div n) : k \in 0..n }

ProbGrid == Grid(0, One, ProbPoints)
AccGrid == Grid(0, One, AccPoints)
\* the anomaly scores at which the fraud transform reaches 100 and 0
AnomalyCorners == { 0 - 5 * 10^4, 0 }
AnomalyGrid == Grid(AnomalyLo, AnomalyHi, AnomalyPoints) \cup AnomalyCorners
DaysGrid == Grid(DaysLo, DaysHi, DaysPoints)

(***************************************************************************)
(* Python values.                                                          *)
(***************************************************************************)
\* None in a model slot
None == [none |-> TRUE]

\* a loaded model package (joblib.load's result) of a model key
Package(key) == [none |-> FALSE, key |-> key]

\* the empty dict
EmptyDict == <<>>

\* round(x, n) of Python, on the exact quotient num / den: nearest integer,
\* ties to the even one
Round(num, den) ==
    LET q == num \div den
        r == num % den
    IN  IF 2 * r < den THEN q
        ELSE IF 2 * r > den THEN q + 1
        ELSE IF q % 2 = 0 THEN q ELSE q + 1

Abs(x) == IF x < 0 THEN 0 - x ELSE x
Min(a, b) == IF a <= b THEN a ELSE b
Max(a, b) == IF a >= b THEN a ELSE b

\* np.clip
Clip(x, lo, hi) == IF x < lo THEN lo ELSE IF x > hi THEN hi ELSE x

\* dict.get(key, default)
Get(d, key, default) == IF key \in DOMAIN d THEN d[key] ELSE default

(***************************************************************************)
(* Model storage and loading (app.py).                                     *)
(***************************************************************************)
SyntheticKeys == <<"delay_probability", "delay_days">>
LendingKeys == <<"acceptance", "default", "delay", "fraud">>

Range(s) == { s[i] : i \in DOMAIN s }

FileStates == {"ok", "missing", "corrupt"}

\* the initial global model storage
models0 ==
    [synthetic_ai |-> [delay_probability |-> None, delay_days |-> None,
                       loaded |-> FALSE],
     lending_club |-> [acceptance |-> None, default |-> None, delay |-> None,
                       fraud |-> None, loaded |-> FALSE]]

\* The try block of a loader from the i-th key on: a missing file leaves the
\* slot alone, a readable one fills it, and a file whose joblib.load raises
\* ends the loader with False, the slots filled so far kept and 'loaded'
\* left False.  Result: <<family storage, return value>>.
RECURSIVE LoadFrom(_, _, _, _)
LoadFrom(fam, files, keys, i) ==
    IF i > Len(keys) THEN <<[fam EXCEPT !.loaded = TRUE], TRUE>>
    ELSE LET k == keys[i] IN
         IF files[k] = "missing" THEN LoadFrom(fam, files, keys, i + 1)
         ELSE IF files[k] = "corrupt" THEN <<fam, FALSE>>
         ELSE LoadFrom([fam EXCEPT ![k] = Package(k)], files, keys, i + 1)

load_lending_club_models(m, files) ==
    IF m.lending_club.loaded THEN <<m, TRUE>>
    ELSE LET r == LoadFrom(m.lending_club, files.lending_club, LendingKeys, 1)
         IN  <<[m EXCEPT !.lending_club = r[1]], r[2]>>

\* load_synthetic_ai_models without the test of 'loaded': every call loads
load_synthetic_ai_models_NoLatch(m, files) ==
    LET r == LoadFrom(m.synthetic_ai, files.synthetic_ai, SyntheticKeys, 1)
    IN  <<[m EXCEPT !.synthetic_ai = r[1]], r[2]>>

load_synthetic_ai_models(m, files) ==
    IF m.synthetic_ai.loaded THEN <<m, TRUE>>
    ELSE LET r == LoadFrom(m.synthetic_ai, files.synthetic_ai, SyntheticKeys, 1)
         IN  <<[m EXCEPT !.synthetic_ai = r[1]], r[2]>>

\* truth value of a model slot: `if models[...][key]:`
Truthy(slot) == ~slot.none

(***************************************************************************)
(* The parts of the state a specification does not use stay as they are    *)
(* before any call.                                                        *)
(***************************************************************************)
NoBulk == party_rows = <<>> /\ bulk = [pc |-> "idle"]
NoRequests == req = <<>> /\ load_count = <<>> /\ overwritten = FALSE
NoInput ==
    /\ request = [caller |-> "none"]
    /\ invocation = [pc |-> "idle"]
NoRecords ==
    /\ records = [has_DaysInPayment |-> TRUE, has_IsDelayed |-> TRUE,
                  rows |-> <<>>]
    /\ party_stats = [pc |-> "idle", calls |-> 0, rows |-> <<>>, first |-> <<>>]

(***************************************************************************)
(* Multi-signal policy: predict_lending_club (app.py).                     *)
(* Units of the reported values: probability, score and confidence are in  *)
(* 10^-2 (two decimals); composite_risk.score is in 10^-1 (one decimal).   *)
(***************************************************************************)
\* weights of the composite score, in percent
WeightDefault == 40
WeightDelay == 30
WeightFraud == 30

\* thresholds of the CRITICAL / HIGH / MEDIUM tiers
TierCritical == 75
TierHigh == 50
TierMedium == 25

\* the threshold chain `'CRITICAL' if x >= 75 else ...` on x = num / den
TierOf(num, den) ==
    IF num >= TierCritical * den THEN "CRITICAL"
    ELSE IF num >= TierHigh * den THEN "HIGH"
    ELSE IF num >= TierMedium * den THEN "MEDIUM"
    ELSE "LOW"

\* round(float(prob * 100), 2) of a raw probability
Percent(p) == Round(p, 10)

\* acceptance_component with 0.5 itself rejected
acceptance_component_StrictThreshold(p) ==
    [probability |-> Percent(p),
     decision |-> IF p > 50000 THEN "ACCEPT" ELSE "REJECT",
     confidence |-> Round(Abs(p - 50000) * 200, 1000)]

acceptance_component(p) ==
    [probability |-> Percent(p),
     decision |-> IF p >= 50000 THEN "ACCEPT" ELSE "REJECT",
     confidence |-> Round(Abs(p - 50000) * 200, 1000)]

default_component(p) ==
    [probability |-> Percent(p),
     risk_level |-> IF p > 30000 THEN "HIGH"
                    ELSE IF p > 15000 THEN "MEDIUM" ELSE "LOW"]

delay_component(p) ==
    [probability |-> Percent(p),
     risk_level |-> IF p > 25000 THEN "HIGH"
                    ELSE IF p > 10000 THEN "MEDIUM" ELSE "LOW"]

\* FraudScore without the clip
FraudScore_Unclipped(anomaly) == (50000 - (anomaly - (0 - 50000))) * 100

\* fraud_score = clip((1 - (anomaly - (-0.5)) / 0.5) * 100, 0, 100), as a
\* numerator over 50000
FraudScore(anomaly) ==
    Clip((50000 - (anomaly - (0 - 50000))) * 100, 0, 100 * 50000)

\* fraud_component with the suspicious flag raised above 25 instead of 60
fraud_component_SuspiciousAbove25(anomaly) ==
    LET fraud_score == FraudScore(anomaly) IN
    [score |-> Round(fraud_score, 500),
     risk_level |-> IF fraud_score > 75 * 50000 THEN "CRITICAL"
                    ELSE IF fraud_score > 50 * 50000 THEN "HIGH"
                    ELSE IF fraud_score > 25 * 50000 THEN "MEDIUM"
                    ELSE "LOW",
     is_suspicious |-> IF fraud_score > 25 * 50000 THEN "Yes" ELSE "No"]

fraud_component(anomaly) ==
    LET fraud_score == FraudScore(anomaly) IN
    [score |-> Round(fraud_score, 500),
     risk_level |-> IF fraud_score > 75 * 50000 THEN "CRITICAL"
                    ELSE IF fraud_score > 50 * 50000 THEN "HIGH"
                    ELSE IF fraud_score > 25 * 50000 THEN "MEDIUM"
                    ELSE "LOW",
     is_suspicious |-> IF fraud_score > 60 * 50000 THEN "Yes" ELSE "No"]

\* CompositeScore with the weights renormalised over the components present
CompositeScore_Renormalised(results) ==
    LET wd == IF "default" \in DOMAIN results THEN WeightDefault ELSE 0
        wl == IF "delay" \in DOMAIN results THEN WeightDelay ELSE 0
        wf == IF "fraud" \in DOMAIN results THEN WeightFraud ELSE 0
        total == wd + wl + wf
    IN  IF total = 0 THEN 0
        ELSE ((wd * Get(Get(results, "default", EmptyDict), "probability", 0)
               + wl * Get(Get(results, "delay", EmptyDict), "probability", 0)
               + wf * Get(Get(results, "fraud", EmptyDict), "score", 0)) * 100)
             \div total

\* CompositeScore with the delay term subtracted
CompositeScore_DelaySubtracted(results) ==
    WeightDefault * Get(Get(results, "default", EmptyDict), "probability", 0)
        - WeightDelay * Get(Get(results, "delay", EmptyDict), "probability", 0)
        + WeightFraud * Get(Get(results, "fraud", EmptyDict), "score", 0)

\* composite_score, as a numerator over 10^4, from the components present in
\* results (an absent one counts 0)
CompositeScore(results) ==
    LET default_prob == Get(Get(results, "default", EmptyDict), "probability", 0)
        delay_prob == Get(Get(results, "delay", EmptyDict), "probability", 0)
        fraud_score == Get(Get(results, "fraud", EmptyDict), "score", 0)
    IN  WeightDefault * default_prob + WeightDelay * delay_prob
            + WeightFraud * fraud_score

composite_risk(results) ==
    LET composite_score == CompositeScore(results) IN
    [score |-> Round(composite_score, 1000),
     tier |-> TierOf(composite_score, 10000)]

RecRejectAcceptance == "REJECT - Application does not meet acceptance criteria"
RecRejectCritical == "REJECT - Critical risk level detected"
RecReview == "REVIEW - Consider additional verification or higher rates"
RecApproveMonitor == "APPROVE - Monitor closely during term"
RecApprove == "APPROVE - Standard terms apply"

\* Recommendation with the composite tier tested before the acceptance decision
Recommendation_TierFirst(acceptance_decision, composite_tier) ==
    IF composite_tier = "CRITICAL" THEN RecRejectCritical
    ELSE IF acceptance_decision = "REJECT" THEN RecRejectAcceptance
    ELSE IF composite_tier = "HIGH" THEN RecReview
    ELSE IF composite_tier = "MEDIUM" THEN RecApproveMonitor
    ELSE RecApprove

\* Recommendation with an UNKNOWN acceptance decision taken for a REJECT
Recommendation_UnknownRejects(acceptance_decision, composite_tier) ==
    IF acceptance_decision \in {"REJECT", "UNKNOWN"} THEN RecRejectAcceptance
    ELSE IF composite_tier = "CRITICAL" THEN RecRejectCritical
    ELSE IF composite_tier = "HIGH" THEN RecReview
    ELSE IF composite_tier = "MEDIUM" THEN RecApproveMonitor
    ELSE RecApprove

\* 6. Final Recommendation
Recommendation(acceptance_decision, composite_tier) ==
    IF acceptance_decision = "REJECT" THEN RecRejectAcceptance
    ELSE IF composite_tier = "CRITICAL" THEN RecRejectCritical
    ELSE IF composite_tier = "HIGH" THEN RecReview
    ELSE IF composite_tier = "MEDIUM" THEN RecApproveMonitor
    ELSE RecApprove

\* one dict entry per loaded model
Component(slot, name, value) ==
    IF Truthy(slot) THEN name :> value ELSE EmptyDict

\* The body of predict_lending_club after a successful load: lc is the
\* lending_club storage, and acc, def, del, anom are what the four
\* predictors return for the request's data.
LendingVerdict(lc, acc, def, del, anom) ==
    LET r4 == Component(lc.acceptance, "acceptance", acceptance_component(acc))
              @@ Component(lc.default, "default", default_component(def))
              @@ Component(lc.delay, "delay", delay_component(del))
              @@ Component(lc.fraud, "fraud", fraud_component(anom))
        r5 == r4 @@ ("composite_risk" :> composite_risk(r4))
        acceptance_decision ==
            Get(Get(r5, "acceptance", EmptyDict), "decision", "UNKNOWN")
    IN  r5 @@ ("recommendation" :>
                 Recommendation(acceptance_decision, r5["composite_risk"].tier))
           @@ ("model_type" :> "LendingClub Dataset")

Idle == [status |-> "idle"]
\* no predictor has been invoked
NoOutputs == <<>>
Returned(value) == [status |-> "returned", value |-> value]
Raised(exception) == [status |-> "raised", exception |-> exception]

\* the predictor of a slot is invoked only when the slot holds a package
OutputsOf(slot, grid) == IF Truthy(slot) THEN grid ELSE {0}

\* predict_lending_club(data), the load included
predict_lending_club ==
    /\ out = Idle
    /\ LET ld == load_lending_club_models(models, fs)
           lc == ld[1].lending_club
       IN  /\ models' = ld[1]
           /\ IF ~ld[2]
              THEN /\ out' = Returned("error" :> "Failed to load LendingClub models")
                   /\ predicted' = NoOutputs
              ELSE \E acc \in OutputsOf(lc.acceptance, AccGrid),
                      def \in OutputsOf(lc.default, ProbGrid),
                      del \in OutputsOf(lc.delay, ProbGrid),
                      anom \in OutputsOf(lc.fraud, AnomalyGrid) :
                        /\ out' = Returned(LendingVerdict(lc, acc, def, del, anom))
                        /\ predicted' = [acceptance |-> acc, default |-> def,
                                         delay |-> del, fraud |-> anom]
    /\ UNCHANGED <<fs, bulkVars, loadVars, aggVars, inputVars>>

\* the caller takes the outcome; the next request may come
Respond ==
    /\ out # Idle
    /\ out' = Idle
    /\ predicted' = NoOutputs
    /\ UNCHANGED <<fs, models, bulkVars, loadVars, aggVars, inputVars>>

FilesOf(keys) == [Range(keys) -> FileStates]
AllOk(keys) == [k \in Range(keys) |-> "ok"]

InitLending ==
    /\ fs \in [synthetic_ai : {AllOk(SyntheticKeys)},
               lending_club : FilesOf(LendingKeys)]
    /\ models = models0
    /\ out = Idle
    /\ predicted = NoOutputs
    /\ NoInput
    /\ NoBulk /\ NoRequests /\ NoRecords

NextLending == predict_lending_club \/ Respond

SpecLending == InitLending /\ [][NextLending]_vars

(***************************************************************************)
(* Single-signal policy: predict_synthetic_ai (app.py).                    *)
(* Units of the reported values: delay_probability is in 10^-2 (percent    *)
(* with two decimals); predicted_delay_days and risk_score are in 10^-1.   *)
(***************************************************************************)
\* risk_score = delay_prob * 60 + min(predicted_days / 90, 1) * 40
WeightProbability == 60
WeightDays == 40
DaysCap == 90

RecCritical == "HIGH RISK - Require advance payment or collateral"
RecHigh == "ELEVATED RISK - Reduce credit terms, monitor closely"
RecMedium == "MODERATE RISK - Standard terms with monitoring"
RecLow == "LOW RISK - Proceed with normal credit terms"

TierRecommendation(risk_tier) ==
    IF risk_tier = "CRITICAL" THEN RecCritical
    ELSE IF risk_tier = "HIGH" THEN RecHigh
    ELSE IF risk_tier = "MEDIUM" THEN RecMedium
    ELSE RecLow

classifier_component(delay_prob) ==
    [delay_probability |-> Percent(delay_prob),
     will_delay |-> IF delay_prob > 50000 THEN "Yes" ELSE "No",
     delay_risk_level |-> IF delay_prob > 70000 THEN "HIGH"
                          ELSE IF delay_prob > 40000 THEN "MEDIUM" ELSE "LOW"]

\* regressor_component without the clamp of a negative output
regressor_component_Unclamped(predicted_days) ==
    [predicted_delay_days |-> Round(predicted_days, 10)]

\* round(float(max(0, predicted_days)), 1) of a raw regressor output
regressor_component(predicted_days) ==
    [predicted_delay_days |-> Round(Max(0, predicted_days), 10)]

\* risk_score from the reported delay_probability (10^-2 percent) and
\* predicted_delay_days (10^-1 days), as a numerator over RiskDen
RiskDen == 10000 * 10 * DaysCap
RiskScore(delay_probability, predicted_delay_days) ==
    delay_probability * WeightProbability * 10 * DaysCap
        + Min(predicted_delay_days, 10 * DaysCap) * WeightDays * 10000

\* The body of predict_synthetic_ai after a successful load: sa is the
\* synthetic_ai storage, prob and days what the classifier and the regressor
\* return for the request's data.
SyntheticVerdict(sa, prob, days) ==
    LET r1 == IF Truthy(sa.delay_probability)
              THEN classifier_component(prob) ELSE EmptyDict
        r2 == r1 @@ (IF Truthy(sa.delay_days)
                     THEN regressor_component(days) ELSE EmptyDict)
        risk_score == RiskScore(Get(r2, "delay_probability", 0),
                                Get(r2, "predicted_delay_days", 0))
        risk_tier == TierOf(risk_score, RiskDen)
    IN  r2 @@ [risk_score |-> Round(risk_score, RiskDen \div 10),
               risk_tier |-> risk_tier,
               recommendation |-> TierRecommendation(risk_tier),
               model_type |-> "Synthetic AI Dataset"]

\* predict_synthetic_ai(data), the load included
predict_synthetic_ai ==
    /\ out = Idle
    /\ LET ld == load_synthetic_ai_models(models, fs)
           sa == ld[1].synthetic_ai
       IN  /\ models' = ld[1]
           /\ IF ~ld[2]
              THEN /\ out' = Returned("error" :> "Failed to load Synthetic AI models")
                   /\ predicted' = NoOutputs
              ELSE \E prob \in OutputsOf(sa.delay_probability, ProbGrid),
                      days \in OutputsOf(sa.delay_days, DaysGrid) :
                        /\ out' = Returned(SyntheticVerdict(sa, prob, days))
                        /\ predicted' = [delay_probability |-> prob,
                                         delay_days |-> days]
    /\ UNCHANGED <<fs, bulkVars, loadVars, aggVars, inputVars>>

InitSynthetic ==
    /\ fs \in [synthetic_ai : FilesOf(SyntheticKeys),
               lending_club : {AllOk(LendingKeys)}]
    /\ models = models0
    /\ out = Idle
    /\ predicted = NoOutputs
    /\ NoInput
    /\ NoBulk /\ NoRequests /\ NoRecords

NextSynthetic == predict_synthetic_ai \/ Respond

SpecSynthetic == InitSynthetic /\ [][NextSynthetic]_vars

(***************************************************************************)
(* The endpoint /api/predict (app.py): each request names its model_type   *)
(* and is handed to predict_synthetic_ai or predict_lending_club; both     *)
(* families share the process and its model storage.  Every model file is  *)
(* readable or missing.                                                    *)
(***************************************************************************)
PresentOrMissing(keys) == [Range(keys) -> {"ok", "missing"}]

InitPredict ==
    /\ fs \in [synthetic_ai : PresentOrMissing(SyntheticKeys),
               lending_club : PresentOrMissing(LendingKeys)]
    /\ models = models0
    /\ out = Idle
    /\ predicted = NoOutputs
    /\ NoInput
    /\ NoBulk /\ NoRequests /\ NoRecords

\* predict(): the dispatch on model_type
NextPredict == predict_synthetic_ai \/ predict_lending_club \/ Respond

SpecPredict == InitPredict /\ [][NextPredict]_vars

(***************************************************************************)
(* Bulk runner: load_models, main and generate_bulk_predictions            *)
(* (streamlit_app.py).  A row of the feature table is modelled by what the *)
(* predictors make of it: their outputs prob and days, or, when one of its *)
(* feature values is not finite (inf, NaN), the ValueError that the        *)
(* predictor's input validation raises.                                    *)
(***************************************************************************)
\* load_models(): both families, each in its own try block
load_models(files) ==
    [synthetic_ai |->
        LoadFrom(models0.synthetic_ai, files.synthetic_ai, SyntheticKeys, 1)[1],
     lending_club |->
        LoadFrom(models0.lending_club, files.lending_club, LendingKeys, 1)[1]]

FiniteRow(name, prob, days) ==
    [PartyName |-> name, finite |-> TRUE, prob |-> prob, days |-> days]
PathologicalRow(name) ==
    [PartyName |-> name, finite |-> FALSE, prob |-> 0, days |-> 0]

RowsNamed(name) ==
    { FiniteRow(name, p, d) : p \in Grid(0, One, BulkPoints),
                              d \in Grid(DaysLo, DaysHi, BulkPoints) }
        \cup { PathologicalRow(name) }

\* feature tables: at most MaxRows rows, one per party, in the order of the
\* party names (the order groupby gives)
FeatureTables ==
    UNION { { t \in [1..n -> UNION { RowsNamed(k) : k \in 1..MaxRows }] :
                /\ \A i \in 1..n : t[i].PartyName >= i
                /\ \A i \in 1..n : t[i].PartyName <= MaxRows - (n - i)
                /\ \A i \in 1..(n - 1) : t[i].PartyName < t[i + 1].PartyName }
            : n \in 0..MaxRows }

\* risk_score of a row from the raw outputs, as a numerator over BulkRiskDen
BulkRiskDen == 100 * 100 * DaysCap
BulkRiskScore(delay_prob, predicted_days) ==
    delay_prob * WeightProbability * (DaysCap \div 10)
        + Min(predicted_days, 100 * DaysCap) * WeightDays * 100

\* one iteration of the loop of generate_bulk_predictions (the recommendation
\* strings are those of predict_synthetic_ai, a symbol put before each)
BulkVerdict(row) ==
    LET delay_prob == row.prob
        predicted_days == Max(row.days, 0)
        risk_score == Round(BulkRiskScore(delay_prob, predicted_days),
                            BulkRiskDen \div 10)
        tier == TierOf(risk_score, 10)
    IN  [PartyName |-> row.PartyName,
         Delay_Probability |-> Percent(delay_prob),
         Expected_Delay_Days |-> Round(predicted_days, 10),
         Risk_Score |-> risk_score,
         Risk_Tier |-> tier,
         Recommendation |-> IF tier = "CRITICAL" THEN RecCritical
                            ELSE IF tier = "HIGH" THEN RecHigh
                            ELSE IF tier = "MEDIUM" THEN RecMedium
                            ELSE RecLow]

\* models = load_models(), at the start of main
BulkLoadModels ==
    /\ bulk.pc = "idle"
    /\ models' = load_models(fs)
    /\ bulk' = [pc |-> "main"]
    /\ UNCHANGED <<fs, out, predicted, party_rows, loadVars, aggVars, inputVars>>

\* main: the check of 'loaded', then the call of generate_bulk_predictions up
\* to its loop; an exception of the call is caught by main and shown as an
\* error, no table being shown
BulkStart ==
    /\ bulk.pc = "main"
    /\ IF ~models.synthetic_ai.loaded
       THEN /\ out' = Returned("error" :> "Models not loaded")
            /\ bulk' = [pc |-> "done"]
       ELSE IF \/ ~Truthy(models.synthetic_ai.delay_probability)
               \/ ~Truthy(models.synthetic_ai.delay_days)
       THEN /\ out' = Raised("TypeError")
            /\ bulk' = [pc |-> "done"]
       ELSE /\ out' = out
            /\ bulk' = [pc |-> "loop", i |-> 1, results |-> <<>>]
    /\ UNCHANGED <<fs, models, predicted, party_rows, loadVars, aggVars, inputVars>>

\* one iteration: the predictors are applied to row i; a raise leaves the
\* function, its results list lost
BulkRow ==
    /\ bulk.pc = "loop"
    /\ bulk.i <= Len(party_rows)
    /\ LET row == party_rows[bulk.i] IN
       IF ~row.finite
       THEN /\ out' = Raised("ValueError")
            /\ bulk' = [pc |-> "done"]
       ELSE /\ out' = out
            /\ bulk' = [bulk EXCEPT !.i = @ + 1,
                                    !.results = Append(@, BulkVerdict(row))]
    /\ UNCHANGED <<fs, models, predicted, party_rows, loadVars, aggVars, inputVars>>

\* return pd.DataFrame(results)
BulkReturn ==
    /\ bulk.pc = "loop"
    /\ bulk.i > Len(party_rows)
    /\ out' = Returned(bulk.results)
    /\ bulk' = [pc |-> "done"]
    /\ UNCHANGED <<fs, models, predicted, party_rows, loadVars, aggVars, inputVars>>

InitBulk ==
    /\ fs \in [synthetic_ai : FilesOf(SyntheticKeys),
               lending_club : {AllOk(LendingKeys)}]
    /\ models = models0
    /\ out = Idle
    /\ predicted = NoOutputs
    /\ NoInput
    /\ party_rows \in FeatureTables
    /\ bulk = [pc |-> "idle"]
    /\ NoRequests /\ NoRecords

NextBulk == BulkLoadModels \/ BulkStart \/ BulkRow \/ BulkReturn

SpecBulk == InitBulk /\ [][NextBulk]_vars

(***************************************************************************)
(* Concurrent requests (app.py): the server handles each request on its    *)
(* own thread, and the threads share `models`.  A request runs             *)
(* predict_synthetic_ai or predict_lending_club; the steps below are the   *)
(* statements of the loader it calls first, one step per statement that    *)
(* reads or writes `models`, and then the prediction, which reads the      *)
(* family's slots.                                                         *)
(***************************************************************************)
Families == {"synthetic_ai", "lending_club"}
KeysOf(family) == IF family = "synthetic_ai" THEN SyntheticKeys ELSE LendingKeys

\* files of a family of which only the last key's file is not known to be
\* readable
LastVaries(keys) ==
    { [k \in Range(keys) |-> IF k = keys[Len(keys)] THEN st ELSE "ok"] :
        st \in FileStates }

\* `if models[family]['loaded']: return True`
ReqCheck(r) ==
    /\ req[r].pc = "check"
    /\ req' = [req EXCEPT ![r].pc =
                  IF models[req[r].fam].loaded THEN "predict" ELSE "load",
                          ![r].i = 1]
    /\ UNCHANGED <<appVars, bulkVars, load_count, overwritten, aggVars, inputVars>>

\* one key of the try block: os.path.exists, joblib.load and the assignment
\* of the slot; after the last key, `models[family]['loaded'] = True`
ReqLoad(r) ==
    /\ req[r].pc = "load"
    /\ LET fam == req[r].fam
           keys == KeysOf(fam)
           i == req[r].i
       IN  IF i > Len(keys)
           THEN /\ models' = [models EXCEPT ![fam].loaded = TRUE]
                /\ req' = [req EXCEPT ![r].pc = "predict"]
                /\ UNCHANGED <<load_count, overwritten>>
           ELSE IF fs[fam][keys[i]] = "missing"
           THEN /\ req' = [req EXCEPT ![r].i = i + 1]
                /\ UNCHANGED <<models, load_count, overwritten>>
           ELSE IF fs[fam][keys[i]] = "corrupt"
           THEN /\ req' = [req EXCEPT ![r].pc = "failed"]
                /\ UNCHANGED <<models, load_count, overwritten>>
           ELSE /\ models' = [models EXCEPT ![fam][keys[i]] = Package(keys[i])]
                /\ load_count' = [load_count EXCEPT ![fam][keys[i]] = @ + 1]
                /\ overwritten' =
                       (overwritten \/ \E q \in DOMAIN req :
                                           /\ q # r
                                           /\ req[q].fam = fam
                                           /\ req[q].pc = "done")
                /\ req' = [req EXCEPT ![r].i = i + 1]
    /\ UNCHANGED <<fs, out, predicted, bulkVars, aggVars, inputVars>>

\* the body of the prediction function: it reads the slots of the family
ReqPredict(r) ==
    /\ req[r].pc = "predict"
    /\ req' = [req EXCEPT ![r].pc = "done",
                          ![r].seen = { k \in Range(KeysOf(req[r].fam)) :
                                          Truthy(models[req[r].fam][k]) }]
    /\ UNCHANGED <<appVars, bulkVars, load_count, overwritten, aggVars, inputVars>>

InitLoad ==
    /\ fs \in [synthetic_ai : LastVaries(SyntheticKeys),
               lending_club : LastVaries(LendingKeys)]
    /\ models = models0
    /\ out = Idle
    /\ predicted = NoOutputs
    /\ NoInput
    /\ req \in [1..NumRequests ->
                  { [pc |-> "check", fam |-> f, i |-> 0, seen |-> {}] :
                      f \in Families }]
    /\ load_count = [f \in Families |-> [k \in Range(KeysOf(f)) |-> 0]]
    /\ overwritten = FALSE
    /\ NoBulk /\ NoRecords

NextLoad ==
    \/ \E r \in DOMAIN req : ReqCheck(r)
    \/ \E r \in DOMAIN req : ReqLoad(r)
    \/ \E r \in DOMAIN req : ReqPredict(r)

SpecLoad == InitLoad /\ [][NextLoad]_vars

(***************************************************************************)
(* The model cache over a process lifetime (app.py): the loaders are       *)
(* called one after the other (at start-up and at the head of every        *)
(* prediction), and between two calls the model directory may change: a    *)
(* file appears, disappears, or becomes unreadable.                        *)
(***************************************************************************)
\* load_synthetic_ai_models()
CallLoadSynthetic ==
    /\ out = Idle
    /\ LET ld == load_synthetic_ai_models(models, fs) IN
       /\ models' = ld[1]
       /\ out' = Returned(ld[2])
    /\ UNCHANGED <<fs, predicted, bulkVars, loadVars, aggVars, inputVars>>

\* load_lending_club_models()
CallLoadLending ==
    /\ out = Idle
    /\ LET ld == load_lending_club_models(models, fs) IN
       /\ models' = ld[1]
       /\ out' = Returned(ld[2])
    /\ UNCHANGED <<fs, predicted, bulkVars, loadVars, aggVars, inputVars>>

\* the model directory changes between two calls
FilesChange ==
    /\ out = Idle
    /\ \E f \in Families : \E k \in Range(KeysOf(f)) :
           \E st \in FileStates \ {fs[f][k]} :
               fs' = [fs EXCEPT ![f][k] = st]
    /\ UNCHANGED <<models, out, predicted, bulkVars, loadVars, aggVars, inputVars>>

InitCache ==
    /\ fs \in [synthetic_ai : FilesOf(SyntheticKeys),
               lending_club : LastVaries(LendingKeys)]
    /\ models = models0
    /\ out = Idle
    /\ predicted = NoOutputs
    /\ NoInput
    /\ NoBulk /\ NoRequests /\ NoRecords

NextCache == CallLoadSynthetic \/ CallLoadLending \/ FilesChange \/ Respond

SpecCache == InitCache /\ [][NextCache]_vars

(***************************************************************************)
(* Feature aggregation: process_synthetic_json_from_df (streamlit_app.py); *)
(* with every column present, compute_party_features and                   *)
(* process_synthetic_json compute the same table.                          *)
(* A cell of df is <<kind, value>>: <<"num", n>> a number (or a text that  *)
(* parses as one), <<"null", 0>> an absent or null cell, <<"text", 0>> an  *)
(* unparsable text, <<"nan", 0>> the NaN that a conversion wrote.  A float *)
(* of the result is a fraction, NaN or inf.  The columns PartyName, Amount *)
(* and CreditDays are in every table; DaysInPayment and IsDelayed may be   *)
(* absent (has_DaysInPayment, has_IsDelayed), their cells then null.  The  *)
(* date columns, which take no part in the aggregates, are left out.       *)
(***************************************************************************)
Frac(n, d) == [kind |-> "num", n |-> n, d |-> d]
NaN == [kind |-> "nan", n |-> 0, d |-> 1]
Inf == [kind |-> "inf", n |-> 0, d |-> 1]

\* a / b of two numeric columns: division by zero gives NaN or inf, no error
Div(a, b) == IF b # 0 THEN Frac(a, b) ELSE IF a = 0 THEN NaN ELSE Inf

\* 1 - x
OneMinus(x) == IF x.kind = "num" THEN Frac(x.d - x.n, x.d) ELSE x

\* to_numeric reading the NaN that an earlier conversion wrote as the number 0
to_numeric_NaNAsZero(cell) ==
    IF cell[1] = "text" THEN <<"nan", 0>>
    ELSE IF cell[1] = "nan" THEN <<"num", 0>> ELSE cell

\* pd.to_numeric(cell, errors="coerce"): an unparsable text becomes NaN, a
\* number and a missing cell stay as they are
to_numeric(cell) == IF cell[1] = "text" THEN <<"nan", 0>> ELSE cell

\* pandas takes a cell for missing (isna)
IsNA(cell) == cell[1] \in {"null", "nan"}

\* sum, count and max of a column over rows, missing cells skipped
RECURSIVE ColSum(_, _)
ColSum(rows, col) ==
    IF rows = <<>> THEN 0
    ELSE (IF IsNA(Head(rows)[col]) THEN 0 ELSE Head(rows)[col][2])
            + ColSum(Tail(rows), col)

RECURSIVE ColSumSq(_, _)
ColSumSq(rows, col) ==
    IF rows = <<>> THEN 0
    ELSE (IF IsNA(Head(rows)[col]) THEN 0
          ELSE Head(rows)[col][2] * Head(rows)[col][2])
            + ColSumSq(Tail(rows), col)

RECURSIVE ColCount(_, _)
ColCount(rows, col) ==
    IF rows = <<>> THEN 0
    ELSE (IF IsNA(Head(rows)[col]) THEN 0 ELSE 1) + ColCount(Tail(rows), col)

ColMax(rows, col) ==
    LET vals == { rows[i][col][2] : i \in { j \in DOMAIN rows : ~IsNA(rows[j][col]) } }
    IN  IF vals = {} THEN NaN
        ELSE Frac(CHOOSE m \in vals : \A v \in vals : v <= m, 1)

\* mean of a column, missing cells skipped; NaN when no cell is left
ColMean(rows, col) == Div(ColSum(rows, col), ColCount(rows, col))

\* the square of the sample standard deviation ("std", ddof = 1): NaN for
\* fewer than two values
ColStdSquared(rows, col) ==
    LET n == ColCount(rows, col)
        sum == ColSum(rows, col)
    IN  IF n < 2 THEN NaN
        ELSE Frac(n * ColSumSq(rows, col) - sum * sum, n * (n - 1))

\* fillna(0)
fillna0(x) == IF x.kind = "nan" THEN Frac(0, 1) ELSE x

\* the conversions of num_cols, written back into df
ConvertNumerics(rows) ==
    [i \in DOMAIN rows |->
        [rows[i] EXCEPT !.Amount = to_numeric(@),
                        !.CreditDays = to_numeric(@),
                        !.DaysInPayment = to_numeric(@)]]

\* settled_df: df.dropna(subset=["DaysInPayment"]), or df itself when it has
\* no such column
Settled(rows, has_DaysInPayment) ==
    IF has_DaysInPayment THEN SelectSeq(rows, LAMBDA r : ~IsNA(r.DaysInPayment))
    ELSE rows

\* GroupRows with the records of a null key put into the first party's group
GroupRows_NullInFirst(rows, party) ==
    SelectSeq(rows, LAMBDA r : \/ r.PartyName = <<"name", party>>
                               \/ (party = 1 /\ r.PartyName[1] = "null"))

\* the rows of a groupby("PartyName") group
GroupRows(rows, party) == SelectSeq(rows, LAMBDA r : r.PartyName = <<"name", party>>)

\* one row of party_stats; has_DaysInPayment and has_IsDelayed tell whether
\* df has the column (`lambda x: 0` stands in for an absent one)
PartyRow(party, g, has_DaysInPayment, has_IsDelayed) ==
    LET delayed_count == IF has_IsDelayed THEN ColSum(g, "IsDelayed") ELSE 0
        total_txn == IF has_IsDelayed THEN ColCount(g, "IsDelayed") ELSE 0
        total_value == ColSum(g, "Amount")
        avg_credit_days == ColMean(g, "CreditDays")
        zero == Frac(0, 1)
    IN  [PartyName |-> party,
         avg_delay_days |-> IF has_DaysInPayment
                            THEN ColMean(g, "DaysInPayment") ELSE zero,
         max_delay_days |-> IF has_DaysInPayment
                            THEN ColMax(g, "DaysInPayment") ELSE zero,
         std_delay_days_squared |->
             IF has_DaysInPayment
             THEN fillna0(ColStdSquared(g, "DaysInPayment")) ELSE zero,
         delayed_count |-> delayed_count,
         total_txn |-> total_txn,
         total_value |-> total_value,
         avg_credit_days |-> avg_credit_days,
         on_time_rate |-> OneMinus(Div(delayed_count, total_txn)),
         CreditDays |-> avg_credit_days,
         Amount |-> Div(total_value, total_txn),
         OutstandingAmount |-> 0]

\* the groups in the order of their keys; a null key makes no group
RECURSIVE GroupsFrom(_, _, _, _)
GroupsFrom(rows, party, has_DaysInPayment, has_IsDelayed) ==
    IF party > NumParties THEN <<>>
    ELSE LET g == GroupRows(rows, party) IN
         (IF g = <<>> THEN <<>>
          ELSE <<PartyRow(party, g, has_DaysInPayment, has_IsDelayed)>>)
            \o GroupsFrom(rows, party + 1, has_DaysInPayment, has_IsDelayed)

\* the table that process_synthetic_json_from_df(df) returns
process_synthetic_json_from_df(df) ==
    GroupsFrom(Settled(ConvertNumerics(df.rows), df.has_DaysInPayment), 1,
               df.has_DaysInPayment, df.has_IsDelayed)

\* cells of the input
Null == <<"null", 0>>
PartyCells == { <<"name", p>> : p \in 1..NumParties } \cup { Null }
DaysCells == { <<"num", 5>>, <<"num", 20>>, Null }
DelayedCells == { <<"num", 0>>, <<"num", 1>>, Null }
AmountCells == { <<"num", 1000>>, <<"text", 0>> }
CreditCells == { <<"num", 30>>, <<"text", 0>> }

RecordsWith(days, delayed) ==
    [PartyName : PartyCells, DaysInPayment : days, IsDelayed : delayed,
     Amount : AmountCells, CreditDays : CreditCells]

\* the uploaded tables: each of the columns DaysInPayment and IsDelayed is
\* there, or is not
InputTables ==
    UNION { { [has_DaysInPayment |-> hd, has_IsDelayed |-> hi, rows |-> t] :
                t \in [1..n -> RecordsWith(IF hd THEN DaysCells ELSE {Null},
                                           IF hi THEN DelayedCells ELSE {Null})] }
            : n \in 0..MaxRecords, hd \in BOOLEAN, hi \in BOOLEAN }

\* party_stats = process_synthetic_json_from_df(df): the table is returned,
\* and the converted columns are left in the caller's df.  The caller may call
\* again on the same df; `first` keeps what the first call returned.
Aggregate ==
    /\ party_stats.calls < MaxCalls
    /\ LET table == process_synthetic_json_from_df(records) IN
       party_stats' = [pc |-> "done",
                       calls |-> party_stats.calls + 1,
                       rows |-> table,
                       first |-> IF party_stats.calls = 0 THEN table
                                 ELSE party_stats.first]
    /\ records' = [records EXCEPT !.rows = ConvertNumerics(@)]
    /\ UNCHANGED <<appVars, bulkVars, loadVars, inputVars>>

InitAggregate ==
    /\ fs = [synthetic_ai |-> AllOk(SyntheticKeys),
             lending_club |-> AllOk(LendingKeys)]
    /\ models = models0
    /\ out = Idle
    /\ predicted = NoOutputs
    /\ NoInput
    /\ records \in InputTables
    /\ party_stats = [pc |-> "idle", calls |-> 0, rows |-> <<>>, first |-> <<>>]
    /\ NoBulk /\ NoRequests

NextAggregate == Aggregate

SpecAggregate == InitAggregate /\ [][NextAggregate]_vars

(***************************************************************************)
(* Predictor invocation: how predict_synthetic_ai, predict_lending_club    *)
(* (app.py) and generate_bulk_predictions (streamlit_app.py) build the     *)
(* input of a package's predictor from the caller's mapping.  A package is *)
(* modelled by its feature list and its scaler (None when it has none); a  *)
(* mapping gives numbers to some of the feature names.                     *)
(***************************************************************************)
FeatureNames == <<"avg_delay_days", "max_delay_days", "std_delay_days",
                  "on_time_rate", "total_value", "avg_credit_days">>
Names == { FeatureNames[i] : i \in 1..NumFeatures }

\* the feature lists of packages: the names in any order, none twice
FeatureOrders ==
    UNION { { f \in [1..n -> Names] : \A i, j \in 1..n : f[i] = f[j] => i = j }
            : n \in 1..NumFeatures }

\* the mappings a caller may supply
Mappings == UNION { [D -> 1..MaxValue] : D \in SUBSET Names }

\* a fitted scaler: transform(X) centres each value
Scaler == [none |-> FALSE, mean |-> 1]
transform(scaler, X) == [i \in DOMAIN X |-> X[i] - scaler.mean]

Packages == [features : FeatureOrders, scaler : {None, Scaler}]

\* {feat: data.get(feat, 0) for feat in features} with the features reversed
DictComprehension_Reversed(features, data) ==
    [i \in 1..Len(features) |->
        Get(data, features[Len(features) + 1 - i], 0)]

\* pd.DataFrame([{feat: data.get(feat, 0) for feat in features}]): its columns
\* in the order of the comprehension
DictComprehension(features, data) ==
    [i \in 1..Len(features) |-> Get(data, features[i], 0)]

\* `for feat in feature_names: if feat not in loan_df.columns: loan_df[feat] = 0`
AddMissingColumns(loan_df, feature_names) ==
    loan_df @@ [k \in Range(feature_names) \ DOMAIN loan_df |-> 0]

\* loan_df[feature_names]
SelectColumns(loan_df, feature_names) ==
    [i \in 1..Len(feature_names) |-> loan_df[feature_names[i]]]

Invoked(X, received) ==
    [pc |-> "done", X |-> X, outcome |-> "invoked", received |-> received]
Failed(X, exception) ==
    [pc |-> "done", X |-> X, outcome |-> exception, received |-> <<>>]

\* predict_synthetic_ai: the package's model is invoked on the data frame of
\* the comprehension; the package's scaler is not looked at
InvokeSynthetic ==
    /\ request.caller = "predict_synthetic_ai"
    /\ invocation.pc = "idle"
    /\ LET X == DictComprehension(request.pkg.features, request.data)
       IN  invocation' = Invoked(X, X)
    /\ UNCHANGED <<request, appVars, bulkVars, loadVars, aggVars>>

\* generate_bulk_predictions: row.get(feat, 0) for the package's features
InvokeBulk ==
    /\ request.caller = "generate_bulk_predictions"
    /\ invocation.pc = "idle"
    /\ LET X == DictComprehension(request.pkg.features, request.data)
       IN  invocation' = Invoked(X, X)
    /\ UNCHANGED <<request, appVars, bulkVars, loadVars, aggVars>>

\* predict_lending_club: the missing columns are added, the package's columns
\* selected, and pkg['scaler'].transform(X) is handed to the model; a package
\* without scaler raises at the subscript
InvokeLending ==
    /\ request.caller = "predict_lending_club"
    /\ invocation.pc = "idle"
    /\ LET pkg == request.pkg
           loan_df == AddMissingColumns(request.data, pkg.features)
           X == SelectColumns(loan_df, pkg.features)
       IN  invocation' = IF Truthy(pkg.scaler)
                         THEN Invoked(X, transform(pkg.scaler, X))
                         ELSE Failed(X, "KeyError")
    /\ UNCHANGED <<request, appVars, bulkVars, loadVars, aggVars>>

InitInput ==
    /\ fs = [synthetic_ai |-> AllOk(SyntheticKeys),
             lending_club |-> AllOk(LendingKeys)]
    /\ models = models0
    /\ out = Idle
    /\ predicted = NoOutputs
    /\ request \in [caller : {"predict_synthetic_ai", "predict_lending_club",
                              "generate_bulk_predictions"},
                    pkg : Packages, data : Mappings]
    /\ invocation = [pc |-> "idle"]
    /\ NoBulk /\ NoRequests /\ NoRecords

NextInput == InvokeSynthetic \/ InvokeBulk \/ InvokeLending

SpecInput == InitInput /\ [][NextInput]_vars

(***************************************************************************)
(* Properties.                                                             *)
(***************************************************************************)
\* a verdict of predict_lending_club has been returned
LendingReturned ==
    /\ out.status = "returned"
    /\ "composite_risk" \in DOMAIN out.value

\* the tier the 25/50/75 thresholds assign to a score reported with one decimal
TierOfReported(score10) ==
    IF score10 >= 750 THEN "CRITICAL"
    ELSE IF score10 >= 500 THEN "HIGH"
    ELSE IF score10 >= 250 THEN "MEDIUM"
    ELSE "LOW"

\* C1: in every verdict of predict_lending_club the recommendation follows the
\* precedence: acceptance decision REJECT gives the acceptance-criteria REJECT
\* string whatever the composite tier; otherwise CRITICAL gives the
\* critical-risk REJECT string, HIGH gives REVIEW, MEDIUM gives APPROVE with
\* monitoring, and LOW gives APPROVE standard terms.
C1_RecommendationPrecedence ==
    LendingReturned =>
        LET v == out.value
            rejected == "acceptance" \in DOMAIN v /\ v["acceptance"].decision = "REJECT"
            tier == v["composite_risk"].tier
            rec == v["recommendation"]
        IN  /\ rejected => rec = RecRejectAcceptance
            /\ (~rejected /\ tier = "CRITICAL") => rec = RecRejectCritical
            /\ (~rejected /\ tier = "HIGH") => rec = RecReview
            /\ (~rejected /\ tier = "MEDIUM") => rec = RecApproveMonitor
            /\ (~rejected /\ tier = "LOW") => rec = RecApprove

\* C1 witness: a verdict with acceptance REJECT and composite tier CRITICAL
\* carries the acceptance-criteria string
C1_Witness ==
    /\ LendingReturned
    /\ "acceptance" \in DOMAIN out.value
    /\ out.value["acceptance"].decision = "REJECT"
    /\ out.value["composite_risk"].tier = "CRITICAL"
    /\ out.value["recommendation"] = RecRejectAcceptance

\* C3: in every verdict of predict_lending_club the reported composite tier is
\* the tier that the 25/50/75 thresholds assign to the reported composite
\* score (the score rounded to one decimal).
C3_TierOfReportedComposite ==
    LendingReturned =>
        out.value["composite_risk"].tier
            = TierOfReported(out.value["composite_risk"].score)

\* C4: for every subset of loaded lending-club models the call returns a
\* verdict; a component is in the verdict exactly when its model is loaded,
\* and the reported composite score is 0.40 x default + 0.30 x delay +
\* 0.30 x fraud over the reported components, an absent one counting 0, the
\* weights unchanged.
C4_PartialModelSet ==
    (out.status # "idle" /\ models.lending_club.loaded) =>
        /\ LendingReturned
        /\ LET v == out.value
               present(k) == k \in DOMAIN v
               d == IF present("default") THEN v["default"].probability ELSE 0
               l == IF present("delay") THEN v["delay"].probability ELSE 0
               f == IF present("fraud") THEN v["fraud"].score ELSE 0
           IN  /\ "error" \notin DOMAIN v
               /\ \A k \in Range(LendingKeys) :
                      present(k) <=> Truthy(models.lending_club[k])
               /\ v["composite_risk"].score = Round(40 * d + 30 * l + 30 * f, 1000)

\* C4 witness: a verdict without fraud and acceptance components, the default
\* and delay components alone giving a positive composite score
C4_Witness ==
    /\ LendingReturned
    /\ models.lending_club.loaded
    /\ DOMAIN out.value \cap Range(LendingKeys) = {"default", "delay"}
    /\ out.value["default"].probability > 0
    /\ out.value["delay"].probability > 0
    /\ out.value["composite_risk"].score > 0

\* a verdict of predict_synthetic_ai has been returned
SyntheticReturned ==
    /\ out.status = "returned"
    /\ "risk_tier" \in DOMAIN out.value

\* C2: in every verdict of predict_synthetic_ai the reported risk_tier is the
\* tier that the thresholds assign to the reported risk_score (CRITICAL iff
\* >= 75, HIGH iff in [50, 75), MEDIUM iff in [25, 50), LOW iff < 25), and the
\* recommendation is the fixed string of that tier.
C2_TierOfReportedRiskScore ==
    SyntheticReturned =>
        LET v == out.value
            tier == TierOfReported(v["risk_score"])
        IN  /\ v["risk_tier"] = tier
            /\ tier = "CRITICAL" => v["recommendation"] = RecCritical
            /\ tier = "HIGH" => v["recommendation"] = RecHigh
            /\ tier = "MEDIUM" => v["recommendation"] = RecMedium
            /\ tier = "LOW" => v["recommendation"] = RecLow

\* C6: when every model slot of the requested family is empty, the call
\* returns an explicit no-verdict result: it does not raise, and it returns
\* neither a risk tier nor a recommendation.
C6_NoModelNoVerdict ==
    (/\ out.status # "idle"
     /\ \A k \in Range(SyntheticKeys) : ~Truthy(models.synthetic_ai[k])) =>
        /\ out.status = "returned"
        /\ "error" \in DOMAIN out.value
        /\ "risk_tier" \notin DOMAIN out.value
        /\ "recommendation" \notin DOMAIN out.value

\* the verdict's entry that a model key's component writes
ComponentKey(k) ==
    IF k = "delay_probability" THEN "delay_probability" ELSE "predicted_delay_days"

\* C7: when one model of the family was never loaded (file missing, or its
\* load raised), the sibling that did load is still invoked and its component
\* is in the verdict.
C7_SiblingStillInvoked ==
    out.status # "idle" =>
        \A k \in Range(SyntheticKeys) :
            Truthy(models.synthetic_ai[k]) =>
                /\ out.status = "returned"
                /\ ComponentKey(k) \in DOMAIN out.value

\* C5: in the bulk runner a row whose scoring raises does not abort the batch:
\* every other row has its verdict in the returned table.
C5_RowFailureIsolated ==
    (/\ bulk.pc = "done"
     /\ models.synthetic_ai.loaded
     /\ Truthy(models.synthetic_ai.delay_probability)
     /\ Truthy(models.synthetic_ai.delay_days)) =>
        \A i \in 1..Len(party_rows) :
            party_rows[i].finite =>
                /\ out.status = "returned"
                /\ \E j \in 1..Len(out.value) :
                       out.value[j].PartyName = party_rows[i].PartyName

\* C8: under any interleaving of concurrent requests each model package is
\* loaded exactly once: no model key's load is executed twice, and no slot is
\* assigned after a request has read the family's slots.
C8_LoadedOnce ==
    /\ \A f \in DOMAIN load_count : \A k \in DOMAIN load_count[f] :
           load_count[f][k] <= 1
    /\ ~overwritten

\* the settled records of a party in the input: DaysInPayment present
SettledRecordsOf(party) ==
    { i \in DOMAIN records.rows :
        /\ records.rows[i].PartyName = <<"name", party>>
        /\ records.rows[i].DaysInPayment[1] = "num" }

\* C9: in every row the aggregator produces, total_txn is the number of
\* settled records of that party and is at least 1, so that on_time_rate and
\* Amount = total_value / total_txn are not divisions by zero.
C9_TotalTxnCountsSettled ==
    party_stats.pc = "done" =>
        \A i \in DOMAIN party_stats.rows :
            LET row == party_stats.rows[i] IN
            /\ row.total_txn = Cardinality(SettledRecordsOf(row.PartyName))
            /\ row.total_txn >= 1
            /\ row.on_time_rate.kind = "num"
            /\ row.Amount.kind = "num"

\* C10: in every row the aggregator produces, on_time_rate is a number in
\* [0, 1] and equals 1 - delayed_count / total_txn.
C10_OnTimeRateInUnitInterval ==
    party_stats.pc = "done" =>
        \A i \in DOMAIN party_stats.rows :
            LET row == party_stats.rows[i]
                rate == row.on_time_rate
            IN  /\ rate.kind = "num"
                /\ rate.d > 0
                /\ 0 <= rate.n /\ rate.n <= rate.d
                /\ rate.n * row.total_txn
                       = (row.total_txn - row.delayed_count) * rate.d

\* the records of the input that are settled (DaysInPayment is a number)
SettledOnly(rows) == SelectSeq(rows, LAMBDA r : r.DaysInPayment[1] = "num")

\* C11: the aggregator produces exactly one row per party that has at least
\* one settled record and no row for a party without one, and the records
\* whose DaysInPayment is absent take no part: the table is the one that the
\* settled records alone give.
C11_OneRowPerSettledParty ==
    party_stats.pc = "done" =>
        /\ \A p \in 1..NumParties :
               Cardinality({ i \in DOMAIN party_stats.rows :
                               party_stats.rows[i].PartyName = p })
                   = IF SettledRecordsOf(p) = {} THEN 0 ELSE 1
        /\ party_stats.rows
               = process_synthetic_json_from_df(
                     [records EXCEPT !.rows = SettledOnly(@)])

\* C12: in every row with total_txn = 1, std_delay_days is exactly 0.
C12_SingleTxnStdZero ==
    party_stats.pc = "done" =>
        \A i \in DOMAIN party_stats.rows :
            party_stats.rows[i].total_txn = 1 =>
                /\ party_stats.rows[i].std_delay_days_squared.kind = "num"
                /\ party_stats.rows[i].std_delay_days_squared.n = 0

\* the sum of a column over rows, a cell that is no number counting 0
RECURSIVE SumMissingAsZero(_, _)
SumMissingAsZero(rows, col) ==
    IF rows = <<>> THEN 0
    ELSE (IF Head(rows)[col][1] = "num" THEN Head(rows)[col][2] ELSE 0)
            + SumMissingAsZero(Tail(rows), col)

\* C13: in a table with the DaysInPayment column, a settled record whose
\* Amount or CreditDays is missing or unparsable is aggregated as if the
\* field were 0: total_value is the sum of the
\* amounts with 0 for such a record, and avg_credit_days is the mean over all
\* settled records of the party with 0 for such a record.
C13_MissingNumericAsZero ==
    (party_stats.pc = "done" /\ records.has_DaysInPayment) =>
        \A i \in DOMAIN party_stats.rows :
            LET row == party_stats.rows[i]
                g == SelectSeq(SettledOnly(records.rows),
                               LAMBDA r : r.PartyName = <<"name", row.PartyName>>)
                avg == row.avg_credit_days
            IN  /\ row.total_value = SumMissingAsZero(g, "Amount")
                /\ avg.kind = "num"
                /\ avg.n * Len(g) = SumMissingAsZero(g, "CreditDays") * avg.d

\* C14: a call of the aggregator leaves the caller's records as they were: no
\* cell of the input is rewritten.
C14_InputUnchanged == [][records' = records]_vars

\* C15: a second call of the aggregator on the same input object returns the
\* same table as the first call.
C15_Idempotent ==
    party_stats.calls >= 2 => party_stats.rows = party_stats.first

\* C15 witness: a second call has returned a table with a row, on an input in
\* which the first call had left a converted cell
C15_Witness ==
    /\ party_stats.calls = 2
    /\ party_stats.rows # <<>>
    /\ party_stats.rows = party_stats.first
    /\ \E i \in DOMAIN records.rows : records.rows[i].CreditDays[1] = "nan"

\* C16: a record whose PartyName is null is excluded and the aggregation goes
\* on: the table is the one that the records with a PartyName give, and each
\* of its rows is a named party's.
C16_NullKeyExcluded ==
    party_stats.pc = "done" =>
        /\ party_stats.rows
               = process_synthetic_json_from_df(
                     [records EXCEPT !.rows =
                         SelectSeq(@, LAMBDA r : r.PartyName[1] = "name")])
        /\ \A i \in DOMAIN party_stats.rows :
               party_stats.rows[i].PartyName \in 1..NumParties

\* C16 witness: the input holds a settled record without PartyName and a
\* settled record of a party, and the table has that party's row
C16_Witness ==
    /\ party_stats.pc = "done"
    /\ \E i, j \in DOMAIN records.rows :
           /\ records.rows[i].PartyName[1] = "null"
           /\ records.rows[i].DaysInPayment[1] = "num"
           /\ records.rows[j].PartyName[1] = "name"
           /\ records.rows[j].DaysInPayment[1] = "num"
    /\ Len(party_stats.rows) = 1

\* C17: the fraud score is clip(100 x (1 - (anomaly + 0.5) / 0.5), 0, 100),
\* reported with two decimals: it is within [0, 100], it is 100 for
\* anomaly <= -0.5 and 0 for anomaly >= 0, and between the two it is
\* -200 x anomaly.
C17_FraudScoreTransform ==
    (LendingReturned /\ "fraud" \in DOMAIN out.value) =>
        LET anomaly == predicted.fraud
            score == out.value["fraud"].score
        IN  /\ 0 <= score /\ score <= 10000
            /\ anomaly <= 0 - 50000 => score = 10000
            /\ anomaly >= 0 => score = 0
            /\ (0 - 50000 < anomaly /\ anomaly < 0) => score = Round(0 - anomaly, 5)

\* C17 witness: a verdict whose anomaly score lies between -0.5 and 0 and
\* whose fraud score lies between 0 and 100
C17_Witness ==
    /\ LendingReturned
    /\ "fraud" \in DOMAIN out.value
    /\ 0 - 50000 < predicted.fraud /\ predicted.fraud < 0
    /\ 0 < out.value["fraud"].score /\ out.value["fraud"].score < 10000

\* the tiers in their order
TierRank(tier) ==
    IF tier = "CRITICAL" THEN 3 ELSE IF tier = "HIGH" THEN 2
    ELSE IF tier = "MEDIUM" THEN 1 ELSE 0

\* the composite of the verdict w is not below that of the verdict v
CompositeNotLower(w, v) ==
    /\ w["composite_risk"].score >= v["composite_risk"].score
    /\ TierRank(w["composite_risk"].tier) >= TierRank(v["composite_risk"].tier)

\* C18: for a verdict and every input that differs from its input only in
\* that the default probability, the delay probability or the fraud score is
\* larger, that input's reported composite score is not lower and its
\* composite tier is not a lower tier.
C18_CompositeMonotonic ==
    LendingReturned =>
        LET lc == models.lending_club
            p == predicted
        IN  /\ \A d \in OutputsOf(lc.default, ProbGrid) :
                   d >= p.default =>
                       CompositeNotLower(
                           LendingVerdict(lc, p.acceptance, d, p.delay, p.fraud),
                           out.value)
            /\ \A l \in OutputsOf(lc.delay, ProbGrid) :
                   l >= p.delay =>
                       CompositeNotLower(
                           LendingVerdict(lc, p.acceptance, p.default, l, p.fraud),
                           out.value)
            /\ \A a \in OutputsOf(lc.fraud, AnomalyGrid) :
                   LET w == LendingVerdict(lc, p.acceptance, p.default, p.delay, a)
                   IN  Get(Get(w, "fraud", EmptyDict), "score", 0)
                           >= Get(Get(out.value, "fraud", EmptyDict), "score", 0)
                       => CompositeNotLower(w, out.value)

\* C18 witness: a verdict with the three components, and an input with a
\* larger delay probability whose composite score and tier are higher
C18_Witness ==
    /\ LendingReturned
    /\ {"default", "delay", "fraud"} \subseteq DOMAIN out.value
    /\ \E l \in ProbGrid :
           LET w == LendingVerdict(models.lending_club, predicted.acceptance,
                                   predicted.default, l, predicted.fraud)
           IN  /\ l > predicted.delay
               /\ w["composite_risk"].score > out.value["composite_risk"].score
               /\ TierRank(w["composite_risk"].tier)
                      > TierRank(out.value["composite_risk"].tier)

\* C19: for the same classifier probability and regressor output, the row of
\* generate_bulk_predictions has the Risk_Score and the Risk_Tier that
\* predict_synthetic_ai returns as risk_score and risk_tier.
C19_BulkMatchesSingle ==
    bulk.pc = "loop" =>
        \A j \in DOMAIN bulk.results :
            LET row == party_rows[j]
                v == SyntheticVerdict(models.synthetic_ai, row.prob, row.days)
            IN  /\ bulk.results[j].Risk_Score = v["risk_score"]
                /\ bulk.results[j].Risk_Tier = v["risk_tier"]

\* C20: for N feature rows the bulk runner, its two models loaded, returns
\* exactly N verdict rows, the i-th with the PartyName of the i-th input row,
\* and the table is a function of the input rows alone.
C20_OrderPreserving ==
    (/\ bulk.pc = "done"
     /\ models.synthetic_ai.loaded
     /\ Truthy(models.synthetic_ai.delay_probability)
     /\ Truthy(models.synthetic_ai.delay_days)) =>
        /\ out.status = "returned"
        /\ Len(out.value) = Len(party_rows)
        /\ \A i \in DOMAIN party_rows :
               /\ out.value[i].PartyName = party_rows[i].PartyName
               /\ out.value[i] = BulkVerdict(party_rows[i])

\* C23: the acceptance decision is ACCEPT exactly when the acceptance
\* probability is >= 0.5 (0.5 itself is ACCEPT) and REJECT otherwise, and
\* confidence = |probability - 0.5| x 200, reported with two decimals: 0 at
\* 0.5, 100 at 0 and at 1, always within [0, 100].
C23_AcceptanceDecision ==
    (LendingReturned /\ "acceptance" \in DOMAIN out.value) =>
        LET p == predicted.acceptance
            a == out.value["acceptance"]
        IN  /\ a.decision = (IF p >= 50000 THEN "ACCEPT" ELSE "REJECT")
            /\ a.confidence = Round(Abs(p - 50000), 5)
            /\ 0 <= a.confidence /\ a.confidence <= 10000
            /\ p = 50000 => a.confidence = 0
            /\ p \in {0, One} => a.confidence = 10000

\* C23 witness: a verdict at acceptance probability 0.5, decided ACCEPT with
\* confidence 0
C23_Witness ==
    /\ LendingReturned
    /\ "acceptance" \in DOMAIN out.value
    /\ predicted.acceptance = 50000
    /\ out.value["acceptance"].decision = "ACCEPT"
    /\ out.value["acceptance"].confidence = 0

\* C26: in every verdict with a fraud component, is_suspicious = Yes implies
\* risk_level HIGH or CRITICAL, risk_level CRITICAL implies is_suspicious =
\* Yes, and risk_level LOW or MEDIUM implies is_suspicious = No.
C26_SuspiciousConsistent ==
    (LendingReturned /\ "fraud" \in DOMAIN out.value) =>
        LET f == out.value["fraud"] IN
        /\ f.is_suspicious = "Yes" => f.risk_level \in {"HIGH", "CRITICAL"}
        /\ f.risk_level = "CRITICAL" => f.is_suspicious = "Yes"
        /\ f.risk_level \in {"LOW", "MEDIUM"} => f.is_suspicious = "No"

\* C26 witness: a verdict whose fraud score lies between the two thresholds
\* 50 and 60: risk_level HIGH, not suspicious
C26_Witness ==
    /\ LendingReturned
    /\ "fraud" \in DOMAIN out.value
    /\ out.value["fraud"].risk_level = "HIGH"
    /\ out.value["fraud"].is_suspicious = "No"

\* C27: when the acceptance model is not loaded, the verdict has no
\* acceptance component, its recommendation is the one of the composite tier
\* alone, and it is never the acceptance-criteria REJECT string.
C27_UnknownAcceptance ==
    (LendingReturned /\ ~Truthy(models.lending_club.acceptance)) =>
        LET tier == out.value["composite_risk"].tier
            rec == out.value["recommendation"]
        IN  /\ "acceptance" \notin DOMAIN out.value
            /\ rec # RecRejectAcceptance
            /\ rec = (IF tier = "CRITICAL" THEN RecRejectCritical
                      ELSE IF tier = "HIGH" THEN RecReview
                      ELSE IF tier = "MEDIUM" THEN RecApproveMonitor
                      ELSE RecApprove)

\* C27 witness: a verdict without acceptance model whose composite tier is
\* CRITICAL: rejected for the critical risk
C27_Witness ==
    /\ LendingReturned
    /\ ~Truthy(models.lending_club.acceptance)
    /\ "acceptance" \notin DOMAIN out.value
    /\ out.value["composite_risk"].tier = "CRITICAL"
    /\ out.value["recommendation"] = RecRejectCritical

\* C24: for every classifier probability in [0, 1] and every regressor
\* output, negative ones included, the single-signal verdict has
\* predicted_delay_days >= 0 (0 for a negative output) and risk_score within
\* [0, 100]; every multi-signal verdict has its composite score within
\* [0, 100].
C24_ScoresInRange ==
    /\ SyntheticReturned =>
           LET v == out.value IN
           /\ 0 <= v["risk_score"] /\ v["risk_score"] <= 1000
           /\ "predicted_delay_days" \in DOMAIN v =>
                  /\ v["predicted_delay_days"] >= 0
                  /\ predicted.delay_days < 0 => v["predicted_delay_days"] = 0
    /\ LendingReturned =>
           /\ 0 <= out.value["composite_risk"].score
           /\ out.value["composite_risk"].score <= 1000

\* C24 witness: a single-signal verdict for a negative regressor output, the
\* days reported as 0 and the score made of the probability alone
C24_Witness ==
    /\ SyntheticReturned
    /\ "predicted_delay_days" \in DOMAIN out.value
    /\ predicted.delay_days < 0
    /\ out.value["predicted_delay_days"] = 0
    /\ out.value["risk_score"] > 0

\* a loader call on a family not yet loaded: it returns False and leaves
\* 'loaded' False when a file's load raises, and otherwise it returns True
\* with 'loaded' True, the slots of the readable files filled
FreshLoad(f) ==
    IF \E k \in Range(KeysOf(f)) : fs[f][k] = "corrupt"
    THEN /\ out' = Returned(FALSE)
         /\ ~models'[f].loaded
    ELSE /\ out' = Returned(TRUE)
         /\ models'[f].loaded
         /\ \A k \in Range(KeysOf(f)) :
                Truthy(models'[f][k]) <=> (fs[f][k] = "ok" \/ Truthy(models[f][k]))

\* the step is a call of the loader of family f
IsLoadCall(f) ==
    IF f = "synthetic_ai" THEN CallLoadSynthetic ELSE CallLoadLending

\* C25: once a family's 'loaded' flag is True, no step touches the family's
\* storage and every later call of its loader returns True (a slot left
\* empty for a missing file stays empty); a call that raises while loading
\* leaves 'loaded' False, and a call on a family not loaded attempts the load.
C25_CacheLatches ==
    [][\A f \in Families :
          /\ models[f].loaded => models'[f] = models[f]
          /\ (IsLoadCall(f) /\ models[f].loaded) => out' = Returned(TRUE)
          /\ (IsLoadCall(f) /\ ~models[f].loaded) => FreshLoad(f)]_vars

\* C25 witness: the synthetic family is loaded with the delay_days slot
\* empty, the file has appeared since, and a later call has returned True
\* leaving the slot empty
C25_Witness ==
    /\ models.synthetic_ai.loaded
    /\ ~Truthy(models.synthetic_ai.delay_days)
    /\ fs.synthetic_ai.delay_days = "ok"
    /\ ~models.lending_club.loaded
    /\ out = Returned(TRUE)

\* C21: the input vector is built in the package's feature order, a feature
\* that the caller's mapping lacks being 0, and no invocation fails for a
\* feature missing from the mapping (the one failure is that of a package
\* without scaler, whatever the mapping holds).
C21_InputVectorInFeatureOrder ==
    invocation.pc = "done" =>
        LET features == request.pkg.features
            X == invocation.X
        IN  /\ Len(X) = Len(features)
            /\ \A i \in 1..Len(features) :
                   X[i] = IF features[i] \in DOMAIN request.data
                          THEN request.data[features[i]] ELSE 0
            /\ invocation.outcome # "invoked" => ~Truthy(request.pkg.scaler)

\* C21 witness: an invocation for a package of two or more features, one
\* of them given by the mapping and put second, the first lacking in the
\* mapping and set to 0
C21_Witness ==
    /\ invocation.pc = "done"
    /\ invocation.outcome = "invoked"
    /\ Len(request.pkg.features) >= 2
    /\ request.pkg.features[1] \notin DOMAIN request.data
    /\ request.pkg.features[2] \in DOMAIN request.data
    /\ invocation.X[1] = 0
    /\ invocation.X[2] = request.data[request.pkg.features[2]]

\* C22: the scaler of a package is optional: with a scaler the predictor
\* receives the scaled input vector, and without one the predictor is
\* invoked on the raw feature values and the invocation does not fail.
C22_ScalerOptional ==
    invocation.pc = "done" =>
        /\ invocation.outcome = "invoked"
        /\ invocation.received
               = IF Truthy(request.pkg.scaler)
                 THEN transform(request.pkg.scaler, invocation.X)
                 ELSE invocation.X

====
